---------------------------- MODULE Spec2Model ----------------------------
(***************************************************************************)
(* A model of DB_version2.py: one run of the script that fetches a sales   *)
(* report, decodes it, flattens it to a table, sanitises the column names, *)
(* infers the column types, creates the table and inserts the rows.        *)
(*                                                                         *)
(* A Python string is a sequence of characters, a character a one-letter   *)
(* string.  The character U+00E9 (e with acute accent) is written "U+00E9" *)
(* and U+00C9 (its capital) "U+00C9".                                      *)
(***************************************************************************)
EXTENDS Integers, Sequences, FiniteSets, TLC

VARIABLES
    pc,               \* the statement the script executes next
    response,         \* what the API answers: [text, doc]
    data,             \* the decoded document (line 14 or 21)
    cleaned_text,     \* the repaired text (line 18)
    preview,          \* what line 24 printed
    log,              \* the operations executed so far, in order
    df_columns,       \* df.columns
    df_rows,          \* the rows of df
    cleaned_columns,  \* the list built by the loop of lines 43-51
    seen,             \* the set built by the loop of lines 43-51
    conn,             \* the connection: "none", "open", "closed", "lost"
    txn,              \* the connection's transaction: "idle", "active", "failed"
    pending,          \* the database as the open transaction sees it
    db,               \* the committed database
    db0,              \* the committed database as the run found it
    row_idx,          \* the number of rows the insert loop has gone through
    cleaned_row       \* cleaned_row of the last iteration (lines 127-130)

vars == <<pc, response, data, cleaned_text, preview, log, df_columns, df_rows,
          cleaned_columns, seen, conn, txn, pending, db, db0, row_idx, cleaned_row>>

(***************************************************************************)
(* Bounds of the model.                                                    *)
(***************************************************************************)
MaxTextLen == 5
MaxNameLen == 4
MaxCols == 3
MaxTokens == 2
MaxCellLen == 3
MaxRows == 2

(***************************************************************************)
(* Strings.                                                                *)
(***************************************************************************)
Uppers == <<"A", "B", "C", "D", "E", "F", "G", "H", "I", "J", "K", "L", "M",
            "N", "O", "P", "Q", "R", "S", "T", "U", "V", "W", "X", "Y", "Z">>
Lowers == <<"a", "b", "c", "d", "e", "f", "g", "h", "i", "j", "k", "l", "m",
            "n", "o", "p", "q", "r", "s", "t", "u", "v", "w", "x", "y", "z">>
Digits == <<"0", "1", "2", "3", "4", "5", "6", "7", "8", "9">>

Range(s) == {s[i] : i \in 1..Len(s)}

IndexOf(c, s) == CHOOSE i \in 1..Len(s) : s[i] = c

\* str.lower() and str.upper(), one character at a time
LowerChar(c) ==
    IF c \in Range(Uppers) THEN Lowers[IndexOf(c, Uppers)]
    ELSE IF c = "U+00C9" THEN "U+00E9" ELSE c

UpperChar(c) ==
    IF c \in Range(Lowers) THEN Uppers[IndexOf(c, Lowers)]
    ELSE IF c = "U+00E9" THEN "U+00C9" ELSE c

lower(s) == [i \in 1..Len(s) |-> LowerChar(s[i])]
upper(s) == [i \in 1..Len(s) |-> UpperChar(s[i])]

\* \w of a str pattern: the Unicode letters and digits, and the underscore
IsWordChar(c) ==
    c \in Range(Uppers) \cup Range(Lowers) \cup Range(Digits) \cup {"_", "U+00E9", "U+00C9"}

IsSpace(c) == c \in {" ", "\t", "\n", "\r"}

RECURSIVE LStrip(_, _)
LStrip(s, drop) ==
    IF s # <<>> /\ s[1] \in drop THEN LStrip(Tail(s), drop) ELSE s

RECURSIVE RStrip(_, _)
RStrip(s, drop) ==
    IF s # <<>> /\ s[Len(s)] \in drop THEN RStrip(SubSeq(s, 1, Len(s) - 1), drop) ELSE s

\* str.strip(chars)
StripChars(s, drop) == RStrip(LStrip(s, drop), drop)

\* str.strip()
strip(s) == StripChars(s, {" ", "\t", "\n", "\r"})

RECURSIVE Concat(_)
Concat(ss) == IF ss = <<>> THEN <<>> ELSE ss[1] \o Concat(Tail(ss))

\* sub in s
Contains(s, sub) ==
    \E i \in 0..(Len(s) - Len(sub)) : SubSeq(s, i + 1, i + Len(sub)) = sub

\* str(n) of an int
RECURSIVE NatStr(_)
NatStr(n) == IF n < 10 THEN <<Digits[n + 1]>> ELSE NatStr(n \div 10) \o <<Digits[(n % 10) + 1]>>

IntStr(n) == IF n < 0 THEN <<"-">> \o NatStr(-n) ELSE NatStr(n)

\* every string over alphabet of a length up to n
StringsUpTo(alphabet, n) == UNION {[1..k -> alphabet] : k \in 0..n}

(***************************************************************************)
(* Step 2: the decoder (lines 13-25).  The response is the JSON document   *)
(* whose text is [" body "] followed by the objects of response.doc; body  *)
(* is response.text, the only part of the model's documents that can fail  *)
(* to lex.  The body's characters are drawn from BodyAlphabet, which holds *)
(* no comma, bracket or blank: a quote that is not escaped ends the string *)
(* early and leaves text no JSON parser accepts.                           *)
(***************************************************************************)
BodyAlphabet == {"\\", "\"", "n", "x", "u"}

HexDigits == Range(Digits) \cup {"a", "b", "c", "d", "e", "f", "A", "B", "C", "D", "E", "F"}

\* the characters of the lookahead of line 18
LegalEscapeChars == {"\"", "\\", "/", "b", "f", "n", "r", "t", "u"}

\* the character a two-character escape of JSON stands for
Unescape(c) ==
    CASE c = "n" -> "\n"
      [] c = "t" -> "\t"
      [] c = "r" -> "\r"
      [] c = "b" -> "U+0008"
      [] c = "f" -> "U+000C"
      [] OTHER -> c

\* json's scanner inside a string literal (strict mode), from position i: the
\* literal ends at the first quote no backslash escapes, and nothing may follow
RECURSIVE ScanString(_, _, _)
ScanString(s, i, acc) ==
    IF i > Len(s) THEN [ok |-> FALSE, value |-> <<>>]
    ELSE IF s[i] = "\"" THEN [ok |-> i = Len(s), value |-> IF i = Len(s) THEN acc ELSE <<>>]
    ELSE IF s[i] \in {"\n", "\t", "\r"} THEN [ok |-> FALSE, value |-> <<>>]
    ELSE IF s[i] # "\\" THEN ScanString(s, i + 1, Append(acc, s[i]))
    ELSE IF i = Len(s) THEN [ok |-> FALSE, value |-> <<>>]
    ELSE IF s[i + 1] = "u"
         THEN IF i + 5 <= Len(s) /\ \A k \in (i + 2)..(i + 5) : s[k] \in HexDigits
              THEN ScanString(s, i + 6,
                       Append(acc, "U+" \o s[i + 2] \o s[i + 3] \o s[i + 4] \o s[i + 5]))
              ELSE [ok |-> FALSE, value |-> <<>>]
    ELSE IF s[i + 1] \in {"\"", "\\", "/", "b", "f", "n", "r", "t"}
         THEN ScanString(s, i + 2, Append(acc, Unescape(s[i + 1])))
    ELSE [ok |-> FALSE, value |-> <<>>]

\* a body between its quotes: the string literal of the response text
Quoted(body) == <<"\"">> \o body \o <<"\"">>

\* json.loads / response.json() on the document with string literal text and
\* objects doc
json_loads(text, doc) ==
    LET r == IF text # <<>> /\ text[1] = "\""
             THEN ScanString(text, 2, <<>>)
             ELSE [ok |-> FALSE, value |-> <<>>]
    IN  IF r.ok THEN [ok |-> TRUE, value |-> [str |-> r.value, doc |-> doc]]
        ELSE [ok |-> FALSE, value |-> "JSONDecodeError"]

\* re.sub(r'\\(?!["\\/bfnrtu])', r'\\\\', bad_json), line 18
re_sub_repair(bad_json) ==
    Concat([i \in 1..Len(bad_json) |->
        IF /\ bad_json[i] = "\\"
           /\ (i = Len(bad_json) \/ bad_json[i + 1] \notin LegalEscapeChars)
        THEN <<"\\", "\\">>
        ELSE <<bad_json[i]>>])

\* cleaned_text[:500], line 24
PreviewLen == 500

Preview(text) == SubSeq(text, 1, IF Len(text) < PreviewLen THEN Len(text) ELSE PreviewLen)

(***************************************************************************)
(* Values.  A JSON value, and a cell of the table, is one of               *)
(*   [kind |-> "None"]                         None                        *)
(*   [kind |-> "NaN"]                          float('nan'), a missing key *)
(*   [kind |-> "NaT"]                          pandas' missing date        *)
(*   [kind |-> "str", s |-> characters]                                    *)
(*   [kind |-> "int", n |-> integer]                                       *)
(*   [kind |-> "float", num |-> n, den |-> d]  n/d, d a power of ten and   *)
(*                                             n/d in lowest such terms    *)
(*   [kind |-> "inf", neg |-> BOOLEAN]         float('inf'), -float('inf') *)
(*   [kind |-> "date", y |-> , m |-> , d |-> ] datetime.date               *)
(*   [kind |-> "list", elems |-> values]                                   *)
(*   [kind |-> "obj", fields |-> <<[key, val], ...>>]   a JSON object      *)
(* Floats are decimal fractions: binary rounding is not modelled.          *)
(***************************************************************************)
None == [kind |-> "None"]
NaN == [kind |-> "NaN"]
NaT == [kind |-> "NaT"]
Str(s) == [kind |-> "str", s |-> s]
PyInt(n) == [kind |-> "int", n |-> n]
Inf(neg) == [kind |-> "inf", neg |-> neg]
Date(y, m, d) == [kind |-> "date", y |-> y, m |-> m, d |-> d]
List(elems) == [kind |-> "list", elems |-> elems]
Obj(fields) == [kind |-> "obj", fields |-> fields]
Field(key, val) == [key |-> key, val |-> val]

RECURSIVE PyFloat(_, _)
PyFloat(num, den) ==
    IF den > 1 /\ num % 10 = 0 THEN PyFloat(num \div 10, den \div 10)
    ELSE [kind |-> "float", num |-> num, den |-> den]

(***************************************************************************)
(* Step 3: pd.json_normalize(data), line 28, on a list of objects whose    *)
(* nested objects hold no further objects.  A record's top-level scalar    *)
(* fields come first, then the fields of its nested objects under          *)
(* "outer.inner"; the columns are the keys in the order of their first     *)
(* appearance over the records; a record without a column's key gets NaN.  *)
(* A list value stays one cell.                                            *)
(***************************************************************************)
RECURSIVE SelectFields(_, _)
SelectFields(fields, nested) ==
    IF fields = <<>> THEN <<>>
    ELSE (IF (fields[1].val.kind = "obj") = nested THEN <<fields[1]>> ELSE <<>>)
         \o SelectFields(Tail(fields), nested)

RECURSIVE NormaliseNested(_, _)
NormaliseNested(fields, prefix) ==
    IF fields = <<>> THEN <<>>
    ELSE LET f == fields[1]
             k == prefix \o f.key
         IN  (IF f.val.kind = "obj"
              THEN NormaliseNested(f.val.fields, k \o <<".">>)
              ELSE <<Field(k, f.val)>>)
             \o NormaliseNested(Tail(fields), prefix)

FlattenRecord(fields) ==
    SelectFields(fields, FALSE) \o NormaliseNested(SelectFields(fields, TRUE), <<>>)

RECURSIVE UnionKeys(_, _)
UnionKeys(keys, fields) ==
    IF fields = <<>> THEN keys
    ELSE UnionKeys(IF fields[1].key \in Range(keys) THEN keys ELSE Append(keys, fields[1].key),
                   Tail(fields))

RECURSIVE NormalisedColumns(_, _)
NormalisedColumns(keys, records) ==
    IF records = <<>> THEN keys
    ELSE NormalisedColumns(UnionKeys(keys, records[1]), Tail(records))

Lookup(fields, key) ==
    IF \E i \in 1..Len(fields) : fields[i].key = key
    THEN fields[CHOOSE i \in 1..Len(fields) :
                    fields[i].key = key /\ \A j \in (i + 1)..Len(fields) : fields[j].key # key].val
    ELSE NaN

json_normalize(doc) ==
    LET records == [i \in 1..Len(doc) |-> FlattenRecord(doc[i].fields)]
        columns == NormalisedColumns(<<>>, records)
    IN  [columns |-> columns,
         rows |-> [i \in 1..Len(records) |->
                      [j \in 1..Len(columns) |-> Lookup(records[i], columns[j])]]]

(***************************************************************************)
(* Step 4: the column names (lines 31-53).                                 *)
(***************************************************************************)
postgres_reserved_keywords ==
    { <<"g", "r", "o", "u", "p">>, <<"o", "r", "d", "e", "r">>,
      <<"s", "e", "l", "e", "c", "t">>, <<"u", "s", "e", "r">>,
      <<"w", "h", "e", "r", "e">>, <<"t", "a", "b", "l", "e">>,
      <<"f", "r", "o", "m">>, <<"j", "o", "i", "n">>, <<"b", "y">> }

\* re.sub(r'[^\w]', '_', col), line 34
ReplaceNonWord(col) == [i \in 1..Len(col) |-> IF IsWordChar(col[i]) THEN col[i] ELSE "_"]

\* re.sub(r'_+', '_', col_clean), line 35
RECURSIVE CollapseUnderscores(_)
CollapseUnderscores(s) ==
    IF Len(s) < 2 THEN s
    ELSE IF s[1] = "_" /\ s[2] = "_" THEN CollapseUnderscores(Tail(s))
    ELSE <<s[1]>> \o CollapseUnderscores(Tail(s))

clean_column_lowercase(col) ==
    LET col_clean == lower(StripChars(CollapseUnderscores(ReplaceNonWord(col)), {"_"}))
    IN  IF col_clean \in postgres_reserved_keywords
        THEN Append(col_clean, "_")
        ELSE col_clean

clean_column_no_collapse(col) ==
    LET col_clean == StripChars(ReplaceNonWord(col), {"_"})
    IN  IF lower(col_clean) \in postgres_reserved_keywords
        THEN Append(col_clean, "_")
        ELSE col_clean

clean_column(col) ==
    LET col_clean == StripChars(CollapseUnderscores(ReplaceNonWord(col)), {"_"})
    IN  IF lower(col_clean) \in postgres_reserved_keywords
        THEN Append(col_clean, "_")
        ELSE col_clean

\* f"{clean_col}_{suffix}"
Suffixed(clean_col, suffix) == clean_col \o <<"_">> \o IntStr(suffix)

\* the while loop of lines 47-48
RECURSIVE FirstFreeSuffix(_, _, _)
FirstFreeSuffix(clean_col, names, suffix) ==
    IF Suffixed(clean_col, suffix) \in names
    THEN FirstFreeSuffix(clean_col, names, suffix + 1)
    ELSE suffix

UniqueName_always_1(clean_col, names) ==
    IF clean_col \in names THEN Suffixed(clean_col, 1) ELSE clean_col

\* lines 45-49: the name column clean_col gets, given the names taken
UniqueName(clean_col, names) ==
    IF clean_col \in names
    THEN Suffixed(clean_col, FirstFreeSuffix(clean_col, names, 1))
    ELSE clean_col

(***************************************************************************)
(* Step 6: the column types (lines 67-78).                                 *)
(***************************************************************************)
DATE == <<"D", "A", "T", "E">>
TEXT == <<"T", "E", "X", "T">>
INTEGER == <<"I", "N", "T", "E", "G", "E", "R">>
NUMERIC_10_2 == <<"N", "U", "M", "E", "R", "I", "C", "(", "1", "0", ",", "2", ")">>

IntegerWords == { <<"q", "t", "y">>, <<"p", "o", "i", "n", "t", "s">> }

NumericWords ==
    { <<"a", "m", "o", "u", "n", "t">>, <<"p", "r", "i", "c", "e">>, <<"g", "s", "t">>,
      <<"d", "i", "s", "c">>, <<"c", "h", "a", "r", "g", "e", "s">>,
      <<"p", "e", "r", "c", "e", "n", "t">>, <<"v", "o", "l", "u", "m", "e">> }

infer_pg_type_numeric_first(column_name) ==
    LET col_lower == lower(column_name)
    IN  IF \E x \in NumericWords : Contains(col_lower, x) THEN NUMERIC_10_2
        ELSE IF \E x \in IntegerWords : Contains(col_lower, x) THEN INTEGER
        ELSE IF Contains(col_lower, <<"m", "o", "n", "t", "h">>) THEN TEXT
        ELSE IF /\ Contains(col_lower, <<"d", "a", "t", "e">>)
                /\ col_lower # <<"b", "i", "l", "l", "m", "o", "n", "t", "h">> THEN DATE
        ELSE TEXT

infer_pg_type(column_name) ==
    LET col_lower == lower(column_name)
    IN  IF /\ Contains(col_lower, <<"d", "a", "t", "e">>)
           /\ col_lower # <<"b", "i", "l", "l", "m", "o", "n", "t", "h">> THEN DATE
        ELSE IF Contains(col_lower, <<"m", "o", "n", "t", "h">>) THEN TEXT
        ELSE IF \E x \in IntegerWords : Contains(col_lower, x) THEN INTEGER
        ELSE IF \E x \in NumericWords : Contains(col_lower, x) THEN NUMERIC_10_2
        ELSE TEXT

\* column_types[...].split('(')[0].lower(), line 128
RECURSIVE SplitFirst(_, _)
SplitFirst(s, sep) ==
    IF s = <<>> \/ s[1] = sep THEN <<>> ELSE <<s[1]>> \o SplitFirst(Tail(s), sep)

TypeKeyword(pg_type) == lower(SplitFirst(pg_type, "("))

(***************************************************************************)
(* Step 8: clean_value (lines 101-120).                                    *)
(***************************************************************************)
numeric == <<"n", "u", "m", "e", "r", "i", "c">>
integer == <<"i", "n", "t", "e", "g", "e", "r">>
date == <<"d", "a", "t", "e">>
text == <<"t", "e", "x", "t">>

\* the list of line 102
Sentinels == { <<"N", "/", "A">>, <<>>, <<"N", "A">> }

Ok(v) == [ok |-> TRUE, value |-> v]
Fail == [ok |-> FALSE, value |-> None]

IsDigits(s) == \A i \in 1..Len(s) : s[i] \in Range(Digits)

RECURSIVE DigitsValue(_)
DigitsValue(s) ==
    IF s = <<>> THEN 0
    ELSE 10 * DigitsValue(SubSeq(s, 1, Len(s) - 1)) + (IndexOf(s[Len(s)], Digits) - 1)

RECURSIVE Pow10(_)
Pow10(n) == IF n = 0 THEN 1 ELSE 10 * Pow10(n - 1)

\* float(s) of a str: blanks stripped, a sign, then nan, inf, infinity or a
\* decimal numeral with at most one point (exponents, underscores and
\* non-ASCII digits are outside the model's alphabets)
ParseFloat(s) ==
    LET t == strip(s)
        signed == t # <<>> /\ t[1] \in {"+", "-"}
        neg == signed /\ t[1] = "-"
        body == IF signed THEN Tail(t) ELSE t
        point == IF "." \in Range(body) THEN IndexOf(".", body) ELSE Len(body) + 1
        whole == SubSeq(body, 1, point - 1)
        frac == SubSeq(body, point + 1, Len(body))
        mag == DigitsValue(whole \o frac)
    IN  IF lower(body) = <<"n", "a", "n">> THEN Ok(NaN)
        ELSE IF lower(body) \in { <<"i", "n", "f">>, <<"i", "n", "f", "i", "n", "i", "t", "y">> }
             THEN Ok(Inf(neg))
        ELSE IF IsDigits(whole) /\ IsDigits(frac) /\ Len(whole) + Len(frac) > 0
             THEN Ok(PyFloat(IF neg THEN -mag ELSE mag, Pow10(Len(frac))))
        ELSE Fail

\* float(value)
py_float(value) ==
    CASE value.kind = "str" -> ParseFloat(value.s)
      [] value.kind = "int" -> Ok(PyFloat(value.n, 1))
      [] value.kind \in {"float", "inf", "NaN"} -> Ok(value)
      [] OTHER -> Fail

\* int(x) of a float: towards zero; ValueError on nan, OverflowError on inf
py_int(x) ==
    IF x.kind = "float"
    THEN Ok(PyInt(IF x.num >= 0 THEN x.num \div x.den ELSE -((-x.num) \div x.den)))
    ELSE Fail

DaysIn(y, m) ==
    IF m \in {4, 6, 9, 11} THEN 30
    ELSE IF m = 2 THEN (IF y % 4 = 0 /\ (y % 100 # 0 \/ y % 400 = 0) THEN 29 ELSE 28)
    ELSE 31

\* pd.to_datetime(s) of a str, on the strings of the form YYYY-MM-DD and
\* on strings without any digit, which it refuses
ParseDate(s) ==
    IF /\ Len(s) = 10
       /\ s[5] = "-" /\ s[8] = "-"
       /\ IsDigits(SubSeq(s, 1, 4)) /\ IsDigits(SubSeq(s, 6, 7)) /\ IsDigits(SubSeq(s, 9, 10))
    THEN LET y == DigitsValue(SubSeq(s, 1, 4))
             m == DigitsValue(SubSeq(s, 6, 7))
             d == DigitsValue(SubSeq(s, 9, 10))
         IN  IF y >= 1 /\ m \in 1..12 /\ d \in 1..DaysIn(y, m) THEN Ok(Date(y, m, d)) ELSE Fail
    ELSE Fail

\* pd.to_datetime(value).date(): a number counts nanoseconds from
\* 1970-01-01 (the model's numbers are all within a day of it); a list
\* becomes a DatetimeIndex, whose .date is no method
to_datetime_date(value) ==
    CASE value.kind = "str" -> ParseDate(value.s)
      [] value.kind = "date" -> Ok(value)
      [] value.kind = "int" -> Ok(IF value.n >= 0 THEN Date(1970, 1, 1) ELSE Date(1969, 12, 31))
      [] value.kind = "float" -> Ok(IF value.num >= 0 THEN Date(1970, 1, 1) ELSE Date(1969, 12, 31))
      [] OTHER -> Fail

ZeroPad(s, width) == [i \in 1..(width - Len(s)) |-> "0"] \o s

\* repr of a float with a short decimal expansion
FloatStr(x) ==
    LET mag == IF x.num < 0 THEN -x.num ELSE x.num
        fracLen == Len(NatStr(x.den)) - 1
    IN  (IF x.num < 0 THEN <<"-">> ELSE <<>>)
        \o NatStr(mag \div x.den) \o <<".">>
        \o (IF x.den = 1 THEN <<"0">> ELSE ZeroPad(NatStr(mag % x.den), fracLen))

\* str(value); repr for the elements of a list
RECURSIVE py_str(_)
RECURSIVE JoinRepr(_)
JoinRepr(elems) ==
    IF elems = <<>> THEN <<>>
    ELSE (IF elems[1].kind = "str" THEN <<"'">> \o elems[1].s \o <<"'">> ELSE py_str(elems[1]))
         \o (IF Len(elems) > 1 THEN <<",", " ">> ELSE <<>>)
         \o JoinRepr(Tail(elems))

py_str(value) ==
    CASE value.kind = "str" -> value.s
      [] value.kind = "int" -> IntStr(value.n)
      [] value.kind = "float" -> FloatStr(value)
      [] value.kind = "inf" -> (IF value.neg THEN <<"-">> ELSE <<>>) \o <<"i", "n", "f">>
      [] value.kind = "NaN" -> <<"n", "a", "n">>
      [] value.kind = "NaT" -> <<"N", "a", "T">>
      [] value.kind = "None" -> <<"N", "o", "n", "e">>
      [] value.kind = "date" ->
            ZeroPad(NatStr(value.y), 4) \o <<"-">> \o ZeroPad(NatStr(value.m), 2)
                \o <<"-">> \o ZeroPad(NatStr(value.d), 2)
      [] value.kind = "list" -> <<"[">> \o JoinRepr(value.elems) \o <<"]">>

\* pd.isna of a scalar
pd_isna(value) == value.kind \in {"None", "NaN", "NaT"}

\* What `if pd.isna(value) or ...` makes of pd.isna(value).  Of a list pd.isna
\* is an array, one entry per element: the truth value of an array of two or
\* more entries is an error (ValueError), that of an empty array is False or
\* an error with the numpy of the build.
IsnaTruth(value) ==
    IF value.kind # "list" THEN {IF pd_isna(value) THEN "True" ELSE "False"}
    ELSE IF Len(value.elems) = 0 THEN {"False", "raise"}
    ELSE IF Len(value.elems) = 1 THEN {IF pd_isna(value.elems[1]) THEN "True" ELSE "False"}
    ELSE {"raise"}

IsSentinel(value) == value.kind = "str" /\ upper(strip(value.s)) \in Sentinels

Returned(v) == [raised |-> FALSE, value |-> v]
Raised == [raised |-> TRUE, value |-> None]

OrNone(r) == IF r.ok THEN r.value ELSE None

\* lines 104-120, once line 102 let the value through
Coerce_no_truncation(value, expected_type) ==
    IF expected_type \in {numeric, integer} THEN OrNone(py_float(value))
    ELSE IF expected_type = date THEN OrNone(to_datetime_date(value))
    ELSE Str(strip(py_str(value)))

Coerce(value, expected_type) ==
    IF expected_type = numeric THEN OrNone(py_float(value))
    ELSE IF expected_type = integer
         THEN LET f == py_float(value) IN IF f.ok THEN OrNone(py_int(f.value)) ELSE None
    ELSE IF expected_type = date THEN OrNone(to_datetime_date(value))
    ELSE Str(strip(py_str(value)))

\* clean_value(value, expected_type): the outcomes the call can have, each a
\* returned value or an exception that leaves the call
clean_value(value, expected_type) ==
    { IF t = "raise" THEN Raised
      ELSE IF t = "True" \/ IsSentinel(value) THEN Returned(None)
      ELSE Returned(Coerce(value, expected_type)) : t \in IsnaTruth(value) }

\* lines 123 and 127-130: the outcomes of cleaning one row, cell by cell
RECURSIVE CleanRowOutcomes(_, _, _)
CleanRowOutcomes(row, columns, idx) ==
    IF idx > Len(row) THEN {Returned(<<>>)}
    ELSE LET first == clean_value(row[idx], TypeKeyword(infer_pg_type(columns[idx])))
             rest == CleanRowOutcomes(row, columns, idx + 1)
         IN  {IF f.raised \/ r.raised THEN [raised |-> TRUE, value |-> <<>>]
              ELSE Returned(<<f.value>> \o r.value) : f \in first, r \in rest}

(***************************************************************************)
(* The database: PostgreSQL behind a psycopg2 connection that is not in    *)
(* autocommit mode.  The first statement opens a transaction; a statement  *)
(* the server refuses leaves the transaction failed, every later statement *)
(* of a failed transaction is refused (InFailedSqlTransaction), and        *)
(* commit() of a failed transaction rolls it back.                         *)
(* A database is [exists, cols, rows]: whether table sales_data exists,    *)
(* its columns <<[name, type], ...>> and its rows, oldest first.           *)
(***************************************************************************)
table_name == <<"s", "a", "l", "e", "s", "_", "d", "a", "t", "a">>

NoTable == [exists |-> FALSE, cols |-> <<>>, rows |-> <<>>]

\* the first value NUMERIC(10,2) cannot hold: 10^(10-2)
NumericLimit == 100000000

Magnitude(x) == IF x.num < 0 THEN -x.num ELSE x.num

\* whether a float, rounded to two decimals, overflows NUMERIC(10,2)
NumericOverflow(x) ==
    LET whole == Magnitude(x) \div x.den
    IN  \/ whole >= NumericLimit
        \/ /\ whole = NumericLimit - 1 /\ x.den > 100
           /\ (Magnitude(x) % x.den) * 1000 >= 995 * x.den

\* a NUMERIC(10,2) column keeps two decimals, rounding half away from zero
Round2(x) ==
    IF x.den <= 100 THEN x
    ELSE LET h == (Magnitude(x) * 100 + x.den \div 2) \div x.den
         IN  PyFloat(IF x.num < 0 THEN -h ELSE h, 100)

\* whether a column of type pg_type takes the parameter v (the model's
\* integers all lie within INTEGER's range)
Fits(pg_type, v) ==
    \/ v.kind = "None"
    \/ pg_type = DATE /\ v.kind = "date"
    \/ pg_type = INTEGER /\ v.kind = "int"
    \/ pg_type = NUMERIC_10_2 /\ v.kind = "NaN"
    \/ pg_type = NUMERIC_10_2 /\ v.kind = "float" /\ ~NumericOverflow(v)
    \/ pg_type = TEXT /\ v.kind = "str"

Stored(pg_type, v) == IF pg_type = NUMERIC_10_2 /\ v.kind = "float" THEN Round2(v) ELSE v

\* line 81
columns_with_types(columns) ==
    [i \in 1..Len(columns) |-> [name |-> columns[i], type |-> infer_pg_type(columns[i])]]

ColumnNames(table) == [i \in 1..Len(table.cols) |-> table.cols[i].name]

IndexIn(name, names) == CHOOSE i \in 1..Len(names) : names[i] = name

\* cur.execute(create_table_query), line 92: CREATE TABLE IF NOT EXISTS.  "" is
\* no identifier (a syntax error); an existing table is left as it is.
ExecuteCreate(t, image, columns) ==
    IF t = "failed" THEN [error |-> TRUE, txn |-> t, image |-> image]
    ELSE IF \E i \in 1..Len(columns) : columns[i] = <<>>
         THEN [error |-> TRUE, txn |-> "failed", image |-> image]
    ELSE IF image.exists THEN [error |-> FALSE, txn |-> "active", image |-> image]
    ELSE [error |-> FALSE, txn |-> "active",
          image |-> [exists |-> TRUE, cols |-> columns_with_types(columns), rows |-> <<>>]]

\* whether the server refuses INSERT INTO sales_data (columns) VALUES (row)
\* on the row's own merits
Rejects(image, columns, row) ==
    \/ ~image.exists
    \/ columns = <<>>
    \/ \E i \in 1..Len(columns) : columns[i] \notin Range(ColumnNames(image))
    \/ \E i \in 1..Len(columns) :
          /\ columns[i] \in Range(ColumnNames(image))
          /\ ~Fits(image.cols[IndexIn(columns[i], ColumnNames(image))].type, row[i])

StoredRow(image, columns, row) ==
    [j \in 1..Len(image.cols) |->
        IF image.cols[j].name \in Range(columns)
        THEN Stored(image.cols[j].type, row[IndexIn(image.cols[j].name, columns)])
        ELSE None]

\* cur.execute(insert_query, cleaned_row), line 139
ExecuteInsert(t, image, columns, row) ==
    IF t = "failed" THEN [error |-> TRUE, txn |-> t, image |-> image]
    ELSE IF Rejects(image, columns, row) THEN [error |-> TRUE, txn |-> "failed", image |-> image]
    ELSE [error |-> FALSE, txn |-> "active",
          image |-> [image EXCEPT !.rows = Append(@, StoredRow(image, columns, row))]]

\* conn.commit(), lines 93 and 143: what the committed database becomes
Committed(t, image, committed) == IF t = "failed" THEN committed ELSE image

(***************************************************************************)
(* The run.                                                                *)
(***************************************************************************)
NoData == [defined |-> FALSE, str |-> <<>>, doc |-> <<>>]
Decoded(value) == [defined |-> TRUE, str |-> value.str, doc |-> value.doc]

\* an exception nobody catches ends the process; the server rolls back what
\* the connection left uncommitted
Uncaught(where) ==
    /\ pc' = "aborted"
    /\ log' = Append(log, where)
    /\ conn' = IF conn = "open" THEN "lost" ELSE conn
    /\ txn' = "idle"
    /\ pending' = db

\* line 10
Fetch ==
    /\ pc = "fetch"
    /\ pc' = "strict_parse"
    /\ log' = Append(log, "get")
    /\ UNCHANGED <<response, db0, data, cleaned_text, preview, df_columns, df_rows,
                   cleaned_columns, seen, conn, txn, pending, db, row_idx, cleaned_row>>

\* line 10, the request failing
FetchFails ==
    /\ pc = "fetch"
    /\ Uncaught("uncaught requests.get")
    /\ UNCHANGED <<response, db0, data, cleaned_text, preview, df_columns, df_rows,
                   cleaned_columns, seen, db, row_idx, cleaned_row>>

\* line 14, succeeding
StrictParse ==
    /\ pc = "strict_parse"
    /\ json_loads(response.text, response.doc).ok
    /\ data' = Decoded(json_loads(response.text, response.doc).value)
    /\ pc' = "normalize"
    /\ log' = Append(log, "strict_parse")
    /\ UNCHANGED <<response, db0, cleaned_text, preview, df_columns, df_rows,
                   cleaned_columns, seen, conn, txn, pending, db, row_idx, cleaned_row>>

\* lines 14-15, raising JSONDecodeError
StrictParseFails ==
    /\ pc = "strict_parse"
    /\ ~json_loads(response.text, response.doc).ok
    /\ pc' = "repair"
    /\ log' = Append(log, "strict_parse")
    /\ UNCHANGED <<response, db0, data, cleaned_text, preview, df_columns, df_rows,
                   cleaned_columns, seen, conn, txn, pending, db, row_idx, cleaned_row>>

\* lines 17-18
Repair ==
    /\ pc = "repair"
    /\ cleaned_text' = re_sub_repair(response.text)
    /\ pc' = "retry_parse"
    /\ log' = Append(log, "repair")
    /\ UNCHANGED <<response, db0, data, preview, df_columns, df_rows,
                   cleaned_columns, seen, conn, txn, pending, db, row_idx, cleaned_row>>

\* line 21, succeeding
RetryParse ==
    /\ pc = "retry_parse"
    /\ json_loads(cleaned_text, response.doc).ok
    /\ data' = Decoded(json_loads(cleaned_text, response.doc).value)
    /\ pc' = "normalize"
    /\ log' = Append(log, "retry_parse")
    /\ UNCHANGED <<response, db0, cleaned_text, preview, df_columns, df_rows,
                   cleaned_columns, seen, conn, txn, pending, db, row_idx, cleaned_row>>

RetryParseFails_swallowed ==
    /\ pc = "retry_parse"
    /\ ~json_loads(cleaned_text, response.doc).ok
    /\ preview' = Preview(cleaned_text)
    /\ pc' = "normalize"
    /\ log' = log \o <<"retry_parse", "preview">>
    /\ UNCHANGED <<response, db0, data, cleaned_text, df_columns, df_rows,
                   cleaned_columns, seen, conn, txn, pending, db, row_idx, cleaned_row>>

\* lines 21-25: the retry fails, the preview is printed, the error raised again
RetryParseFails ==
    /\ pc = "retry_parse"
    /\ ~json_loads(cleaned_text, response.doc).ok
    /\ preview' = Preview(cleaned_text)
    /\ pc' = "aborted"
    /\ log' = log \o <<"retry_parse", "preview">>
    /\ UNCHANGED <<response, db0, data, cleaned_text, df_columns, df_rows,
                   cleaned_columns, seen, conn, txn, pending, db, row_idx, cleaned_row>>

\* line 28
Normalize ==
    /\ pc = "normalize"
    /\ df_columns' = json_normalize(data.doc).columns
    /\ df_rows' = json_normalize(data.doc).rows
    /\ pc' = "sanitize"
    /\ log' = Append(log, "normalize")
    /\ UNCHANGED <<response, db0, data, cleaned_text, preview,
                   cleaned_columns, seen, conn, txn, pending, db, row_idx, cleaned_row>>

\* one iteration of the loop of lines 43-51
SanitizeColumn ==
    /\ pc = "sanitize"
    /\ Len(cleaned_columns) < Len(df_columns)
    /\ LET col == df_columns[Len(cleaned_columns) + 1]
           clean_col == UniqueName(clean_column(col), seen)
       IN  /\ cleaned_columns' = Append(cleaned_columns, clean_col)
           /\ seen' = seen \cup {clean_col}
    /\ UNCHANGED <<pc, response, db0, data, cleaned_text, preview, log, df_columns, df_rows,
                   conn, txn, pending, db, row_idx, cleaned_row>>

\* line 53, the loop being over
AssignColumns ==
    /\ pc = "sanitize"
    /\ Len(cleaned_columns) = Len(df_columns)
    /\ df_columns' = cleaned_columns
    /\ pc' = "connect"
    /\ UNCHANGED <<response, db0, data, cleaned_text, preview, log, df_rows,
                   cleaned_columns, seen, conn, txn, pending, db, row_idx, cleaned_row>>

\* lines 57-64
Connect ==
    /\ pc = "connect"
    /\ conn' = "open"
    /\ txn' = "idle"
    /\ pending' = db
    /\ pc' = "create_table"
    /\ log' = Append(log, "connect")
    /\ UNCHANGED <<response, db0, data, cleaned_text, preview, df_columns, df_rows,
                   cleaned_columns, seen, db, row_idx, cleaned_row>>

\* lines 57-63, the server not answering
ConnectFails ==
    /\ pc = "connect"
    /\ Uncaught("uncaught connect")
    /\ UNCHANGED <<response, db0, data, cleaned_text, preview, df_columns, df_rows,
                   cleaned_columns, seen, db, row_idx, cleaned_row>>

\* lines 81-92
CreateTable ==
    /\ pc = "create_table"
    /\ LET r == ExecuteCreate(txn, pending, df_columns)
       IN  IF r.error
           THEN Uncaught("uncaught create_table")
           ELSE /\ txn' = r.txn
                /\ pending' = r.image
                /\ pc' = "commit_create"
                /\ log' = Append(log, "create_table")
                /\ conn' = conn
    /\ UNCHANGED <<response, db0, data, cleaned_text, preview, df_columns, df_rows,
                   cleaned_columns, seen, db, row_idx, cleaned_row>>

\* line 93
CommitCreate ==
    /\ pc = "commit_create"
    /\ db' = Committed(txn, pending, db)
    /\ pending' = Committed(txn, pending, db)
    /\ txn' = "idle"
    /\ pc' = "billdate"
    /\ log' = Append(log, "commit")
    /\ UNCHANGED <<response, db0, data, cleaned_text, preview, df_columns, df_rows,
                   cleaned_columns, seen, conn, row_idx, cleaned_row>>

BillDate == <<"B", "i", "l", "l", "D", "a", "t", "e">>

\* pd.to_datetime(..., errors='coerce').dt.date, cell by cell, on a column of
\* strings and missing values
CoerceDate(value) ==
    IF pd_isna(value) \/ ~to_datetime_date(value).ok THEN NaT
    ELSE to_datetime_date(value).value

\* lines 97-98
CleanBillDate ==
    /\ pc = "billdate"
    /\ df_rows' = [i \in 1..Len(df_rows) |->
                      [j \in 1..Len(df_columns) |->
                          IF df_columns[j] = BillDate
                          THEN CoerceDate(df_rows[i][j])
                          ELSE df_rows[i][j]]]
    /\ pc' = "insert_loop"
    /\ UNCHANGED <<response, db0, data, cleaned_text, preview, log, df_columns,
                   cleaned_columns, seen, conn, txn, pending, db, row_idx, cleaned_row>>

\* one iteration of the loop of lines 126-141, the row's cells cleaned
InsertRow ==
    /\ pc = "insert_loop"
    /\ row_idx < Len(df_rows)
    /\ \E o \in CleanRowOutcomes(df_rows[row_idx + 1], df_columns, 1) :
          /\ ~o.raised
          /\ cleaned_row' = o.value
          /\ LET r == ExecuteInsert(txn, pending, df_columns, o.value)
             IN  /\ txn' = r.txn
                 /\ pending' = r.image
                 /\ log' = Append(log, IF r.error THEN "insert error" ELSE "insert")
    /\ row_idx' = row_idx + 1
    /\ UNCHANGED <<pc, response, db0, data, cleaned_text, preview, df_columns, df_rows,
                   cleaned_columns, seen, conn, db>>

\* lines 127-130 raising: clean_value is called outside the try of line 138
InsertRowRaises ==
    /\ pc = "insert_loop"
    /\ row_idx < Len(df_rows)
    /\ \E o \in CleanRowOutcomes(df_rows[row_idx + 1], df_columns, 1) : o.raised
    /\ Uncaught("uncaught clean_value")
    /\ UNCHANGED <<response, db0, data, cleaned_text, preview, df_columns, df_rows,
                   cleaned_columns, seen, db, row_idx, cleaned_row>>

\* line 143, the loop being over
Commit ==
    /\ pc = "insert_loop"
    /\ row_idx = Len(df_rows)
    /\ db' = Committed(txn, pending, db)
    /\ pending' = Committed(txn, pending, db)
    /\ txn' = "idle"
    /\ pc' = "close"
    /\ log' = Append(log, "commit")
    /\ UNCHANGED <<response, db0, data, cleaned_text, preview, df_columns, df_rows,
                   cleaned_columns, seen, conn, row_idx, cleaned_row>>

\* lines 146-149
Close ==
    /\ pc = "close"
    /\ conn' = "closed"
    /\ pc' = "done"
    /\ log' = Append(log, "close")
    /\ UNCHANGED <<response, db0, data, cleaned_text, preview, df_columns, df_rows,
                   cleaned_columns, seen, txn, pending, db, row_idx, cleaned_row>>

(***************************************************************************)
(* The inputs of the run: what the API answers and what the database       *)
(* holds.                                                                  *)
(***************************************************************************)
Qty == <<"Q", "t", "y">>
GSTAmount == <<"G", "S", "T", "A", "m", "o", "u", "n", "t">>
OrderKey == <<"O", "r", "d", "e", "r">>
KeyASpaceB == <<"a", " ", "b">>
KeyAUnderB == <<"a", "_", "b">>
KeyBang == <<"!">>

IsoDay == <<"2", "0", "2", "4", "-", "0", "1", "-", "0", "5">>
Abc == <<"a", "b", "c">>

KeySeqs == { <<BillDate, Qty, GSTAmount>>, <<OrderKey, KeyASpaceB, KeyAUnderB>>, <<KeyBang, Qty>> }

RowKinds == {"good", "missing", "junk", "overflow", "list"}

GoodCell(key) ==
    CASE key = BillDate -> Str(IsoDay)
      [] key = Qty -> Str(<<"3">>)
      [] key = GSTAmount -> Str(<<"4", "5", ".", "0", "0">>)
      [] OTHER -> Str(<<" ", "a", "b", "c", " ">>)

\* the cell a row of a kind holds under a key
SampleCell(kind, key) ==
    CASE kind = "missing" ->
            (CASE key = BillDate -> None
               [] key = Qty -> Str(<<"N", "A">>)
               [] key = GSTAmount -> Str(<<" ", "n", "/", "a", " ">>)
               [] OTHER -> Str(<<>>))
      [] kind = "junk" -> Str(Abc)
      [] kind = "overflow" /\ key = GSTAmount ->
            Str(<<"1", "0", "0", "0", "0", "0", "0", "0", "0">>)
      [] kind = "list" /\ key \in {Qty, KeyASpaceB} -> List(<<PyInt(1), PyInt(2)>>)
      [] OTHER -> GoodCell(key)

SampleObject(kind, keys) == Obj([j \in 1..Len(keys) |-> Field(keys[j], SampleCell(kind, keys[j]))])

\* [{"a": {"b": "x"}, "a_b": "y", "Qty": "1"}, {"a_b": "z"}]
NestedDoc ==
    << Obj(<< Field(<<"a">>, Obj(<<Field(<<"b">>, Str(<<"x">>))>>)),
              Field(KeyAUnderB, Str(<<"y">>)),
              Field(Qty, Str(<<"1">>)) >>),
       Obj(<< Field(KeyAUnderB, Str(<<"z">>)) >>) >>

\* [{"BillDate":"2024-01-05","Qty":"3","GSTAmount":"45.00"}]
ScenarioDoc == << SampleObject("good", <<BillDate, Qty, GSTAmount>>) >>

Docs ==
    {NestedDoc} \cup
    UNION { { [i \in 1..n |-> SampleObject(kinds[i], keys)] : kinds \in [1..n -> RowKinds] } :
            n \in 0..MaxRows, keys \in KeySeqs }

\* bodies: one that parses, one the repair mends, one it breaks, one it cannot mend
Bodies ==
    { Quoted(<<"x">>), Quoted(<<"\\", "x">>), Quoted(<<"\\", "x", "\\", "\\", "x">>),
      Quoted(<<"\"">>) }

\* a table sales_data of another shape, left by somebody else
OtherTable ==
    [exists |-> TRUE, cols |-> << [name |-> <<"i", "d">>, type |-> INTEGER] >>,
     rows |-> << <<PyInt(1)>> >>]

\* the variables a stage that has not run yet has not touched
Untouched(names) ==
    /\ "db" \in names \/ db = NoTable
    /\ db0 = db
    /\ "data" \in names \/ data = NoData
    /\ "cleaned_text" \in names \/ (cleaned_text = <<>> /\ preview = <<>>)
    /\ "df" \in names \/ (df_columns = <<>> /\ df_rows = <<>>)
    /\ "cleaned_columns" \in names \/ (cleaned_columns = <<>> /\ seen = {})
    /\ "conn" \in names \/ (conn = "none" /\ txn = "idle" /\ pending = db)
    /\ row_idx = 0
    /\ cleaned_row = <<>>

Init ==
    /\ pc = "fetch"
    /\ response \in [text : Bodies, doc : Docs]
    /\ db \in {NoTable, OtherTable}
    /\ log = <<>>
    /\ Untouched({"db"})

Next ==
    \/ Fetch \/ FetchFails
    \/ StrictParse \/ StrictParseFails \/ Repair \/ RetryParse \/ RetryParseFails
    \/ Normalize \/ SanitizeColumn \/ AssignColumns
    \/ Connect \/ ConnectFails \/ CreateTable \/ CommitCreate
    \/ CleanBillDate \/ InsertRow \/ InsertRowRaises \/ Commit \/ Close

Spec == Init /\ [][Next]_vars

(***************************************************************************)
(* The decoder on every body up to MaxTextLen characters.                  *)
(***************************************************************************)
InitDecode ==
    /\ pc = "strict_parse"
    /\ response \in [text : {Quoted(b) : b \in StringsUpTo(BodyAlphabet, MaxTextLen)},
                    doc : {ScenarioDoc}]
    /\ log = <<"get">>
    /\ Untouched({})

NextDecode == StrictParse \/ StrictParseFails \/ Repair \/ RetryParse \/ RetryParseFails

SpecDecode == InitDecode /\ [][NextDecode]_vars

(***************************************************************************)
(* The column sanitizer on every name up to MaxNameLen characters and on   *)
(* every sequence of up to MaxCols distinct names that collide once clean. *)
(***************************************************************************)
NameAlphabet == {"b", "y", "B", "_", " ", "U+00E9"}

ReservedSamples == { <<"g", "r", "o", "u", "p">>, OrderKey, <<"_", "U", "s", "e", "r", "!">> }

CollidingNames ==
    { <<"a">>, <<"a", " ">>, <<"A">>, <<"a", "_", "1">>, <<"a", ".", "1">>,
      <<"a", "_", "1", "_", "1">>, <<"a", "_", "2">> }

DistinctSeqs(names, n) ==
    UNION { {q \in [1..k -> names] : \A i, j \in 1..k : i # j => q[i] # q[j]} : k \in 0..n }

InitColumns ==
    /\ pc = "sanitize"
    /\ response = [text |-> <<>>, doc |-> <<>>]
    /\ \/ df_columns \in DistinctSeqs(CollidingNames, MaxCols)
       \/ \E name \in StringsUpTo(NameAlphabet, MaxNameLen) \cup ReservedSamples :
             df_columns = <<name>>
    /\ df_rows = <<>>
    /\ log = <<"get", "strict_parse", "normalize">>
    /\ Untouched({"df"})

NextColumns == SanitizeColumn \/ AssignColumns

SpecColumns == InitColumns /\ [][NextColumns]_vars

(***************************************************************************)
(* The type inference on every name made of up to MaxTokens tokens.        *)
(***************************************************************************)
TypeTokens ==
    { <<"d", "a", "t", "e">>, <<"D", "a", "t", "e">>, <<"m", "o", "n", "t", "h">>,
      <<"b", "i", "l", "l">>, <<"Q", "t", "y">>, <<"P", "O", "I", "N", "T", "S">>,
      <<"a", "m", "o", "u", "n", "t">>, <<"P", "r", "i", "c", "e">>, <<"g", "s", "t">>,
      <<"d", "i", "s", "c">>, <<"c", "h", "a", "r", "g", "e", "s">>,
      <<"p", "e", "r", "c", "e", "n", "t">>, <<"v", "o", "l", "u", "m", "e">>,
      <<"x">>, <<"U", "p">>, <<"l", "y">> }

TokenNames == { Concat(q) : q \in StringsUpTo(TypeTokens, MaxTokens) }

TypeSamples ==
    { GSTAmount, BillDate, Qty,
      <<"B", "i", "l", "l", "M", "o", "n", "t", "h">>,
      <<"D", "e", "s", "c", "r", "i", "p", "t", "i", "o", "n">>,
      <<"U", "p", "d", "a", "t", "e", "A", "m", "o", "u", "n", "t">>,
      <<"M", "o", "n", "t", "h", "l", "y", "Q", "t", "y">> }

InitTypes ==
    /\ pc = "create_table"
    /\ response = [text |-> <<>>, doc |-> <<>>]
    /\ \E name \in TokenNames \cup TypeSamples :
          /\ df_columns = <<name>>
          /\ cleaned_columns = <<name>>
          /\ seen = {name}
    /\ df_rows = <<>>
    /\ conn = "open" /\ txn = "idle" /\ db = NoTable /\ pending = db
    /\ log = <<"get", "strict_parse", "normalize", "connect">>
    /\ Untouched({"df", "cleaned_columns", "conn"})

NextTypes == CreateTable

SpecTypes == InitTypes /\ [][NextTypes]_vars

(***************************************************************************)
(* clean_value on every cell of CellValues under every type keyword.       *)
(***************************************************************************)
CellAlphabet == {" ", "N", "A", "n", "a", "/", "1", "5", ".", "-"}

\* the strings pd.to_datetime is modelled on
DateStrings == { IsoDay, Abc, <<"2", "0", "2", "4", "-", "1", "3", "-", "4", "5">> }

CellSamples ==
    DateStrings \cup
    { <<"1", "2", ".", "5", "0">>, <<" ", "N", "/", "A", " ">>, <<"-", "1", ".", "5">>,
      <<"1", "0", "0", "0", "0", "0", "0", "0", "0">>, <<"I", "n", "f">> }

CellValues ==
    {None, NaN, NaT, Date(2024, 1, 5)}
    \cup {Str(s) : s \in StringsUpTo(CellAlphabet, MaxCellLen) \cup CellSamples}
    \cup {PyInt(n) : n \in {-2, 0, 3}}
    \cup {PyFloat(125, 10), PyFloat(-5, 10), PyFloat(3, 1)}
    \cup {List(<<>>), List(<<PyInt(1)>>), List(<<None>>), List(<<PyInt(1), PyInt(2)>>)}

TypedColumns ==
    { <<"D", "u", "e", "D", "a", "t", "e">>, Qty, GSTAmount, <<"N", "a", "m", "e">> }

InitCleanValue ==
    /\ pc = "insert_loop"
    /\ response = [text |-> <<>>, doc |-> <<>>]
    /\ \E col \in TypedColumns, v \in CellValues :
          /\ infer_pg_type(col) = DATE /\ v.kind = "str"
                => IsSentinel(v) \/ v.s \in DateStrings
          /\ df_columns = <<col>>
          /\ cleaned_columns = <<col>>
          /\ seen = {col}
          /\ df_rows = << <<v>> >>
          /\ db = [exists |-> TRUE, cols |-> columns_with_types(<<col>>), rows |-> <<>>]
    /\ conn = "open" /\ txn = "idle" /\ pending = db
    /\ log = <<"get", "strict_parse", "normalize", "connect", "create_table", "commit">>
    /\ Untouched({"df", "cleaned_columns", "conn", "db"})

NextCleanValue == InsertRow \/ InsertRowRaises

SpecCleanValue == InitCleanValue /\ [][NextCleanValue]_vars

(***************************************************************************)
(* Properties.                                                             *)
(***************************************************************************)
Count(events, e) == Cardinality({i \in 1..Len(events) : events[i] = e})

Position(events, e) == CHOOSE i \in 1..Len(events) : events[i] = e

Happened(e) == e \in Range(log)

\* what follows the decoder
LaterSteps == {"normalize", "connect", "create_table", "insert", "insert error", "commit", "close"}

IsDbEvent(e) == e \in {"connect", "create_table", "insert", "insert error", "commit", "close"}

IsInsertEvent(e) == e \in {"insert", "insert error"}

\* the cleaned row of row i of a table all of whose rows clean without an error
CleanedRow(i) ==
    (CHOOSE o \in CleanRowOutcomes(df_rows[i], df_columns, 1) : ~o.raised).value

\* the rows whose INSERT the server does not refuse on the row's own merits,
\* as the table keeps them, in the order of the rows
RECURSIVE AcceptableRows(_)
AcceptableRows(i) ==
    IF i > Len(df_rows) THEN <<>>
    ELSE (IF Rejects(db, df_columns, CleanedRow(i)) THEN <<>>
          ELSE <<StoredRow(db, df_columns, CleanedRow(i))>>)
         \o AcceptableRows(i + 1)

\* C1: once the run is over, the table holds, after the rows it held before,
\* exactly the rows whose INSERT was not rejected on its own merits
C1_PartialSuccess ==
    pc = "done" => db.rows = db0.rows \o AcceptableRows(1)

\* C6: cleaning a row never fails, whatever its cells, and no failure of
\* clean_value ends the run
C6_CleaningNeverAborts ==
    ~Happened("uncaught clean_value")

\* C7: the strict parse comes first and once; if it succeeds its value is the
\* data and there is no repair; if it fails there is one repair and one retry,
\* on the repaired text; if the retry fails the preview is printed, the run is
\* over and none of the later steps has been executed
C7_DecoderControlFlow ==
    LET strict == json_loads(response.text, response.doc)
        retry == json_loads(re_sub_repair(response.text), response.doc)
        past == pc \notin {"fetch", "strict_parse"} /\ Happened("get")
    IN  /\ Count(log, "strict_parse") <= 1
        /\ Count(log, "repair") <= 1
        /\ Count(log, "retry_parse") <= 1
        /\ \A i \in 1..Len(log) :
              log[i] \in {"repair", "retry_parse", "preview"} \cup LaterSteps
                 => \E j \in 1..(i - 1) : log[j] = "strict_parse"
        /\ past /\ strict.ok =>
              /\ Happened("strict_parse")
              /\ ~Happened("repair") /\ ~Happened("retry_parse") /\ ~Happened("preview")
              /\ data = Decoded(strict.value)
        /\ past /\ ~strict.ok =>
              /\ Happened("strict_parse")
              /\ pc = "repair" <=> ~Happened("repair")
              /\ pc = "retry_parse" <=> Happened("repair") /\ ~Happened("retry_parse")
              /\ Happened("repair") => cleaned_text = re_sub_repair(response.text)
              /\ Happened("retry_parse") =>
                    Position(log, "repair") + 1 = Position(log, "retry_parse")
              /\ Happened("retry_parse") /\ retry.ok =>
                    data = Decoded(retry.value) /\ ~Happened("preview")
              /\ Happened("retry_parse") /\ ~retry.ok =>
                    /\ pc = "aborted"
                    /\ log = <<"get", "strict_parse", "repair", "retry_parse", "preview">>
                    /\ preview = Preview(cleaned_text)
                    /\ data = NoData
                    /\ conn = "none" /\ db = db0
        /\ (\E e \in LaterSteps : Happened(e)) => data.defined

\* a run whose retry failed
C7_Witness ==
    /\ pc = "aborted"
    /\ Happened("preview")
    /\ ~json_loads(cleaned_text, response.doc).ok

ScenarioTable(names) ==
    [exists |-> TRUE,
     cols |-> << [name |-> names[1], type |-> DATE], [name |-> names[2], type |-> INTEGER],
                 [name |-> names[3], type |-> NUMERIC_10_2] >>,
     rows |-> << <<Date(2024, 1, 5), PyInt(3), PyFloat(4500, 100)>> >>]

\* C8, as amended: on the scenario's response and no table, the finished run
\* leaves a table of the columns BillDate DATE, Qty INTEGER and GSTAmount
\* NUMERIC(10,2), the names in the case the API gave them, with the one row
\* 2024-01-05, 3, 45.00
C8_Scenario ==
    pc = "done" /\ response.doc = ScenarioDoc /\ db0 = NoTable
       => db = ScenarioTable(<<BillDate, Qty, GSTAmount>>)

\* C8, as claimed: the columns are named billdate, qty and gstamount
C8_ScenarioLowerCase ==
    pc = "done" /\ response.doc = ScenarioDoc /\ db0 = NoTable
       => db = ScenarioTable(<<lower(BillDate), lower(Qty), lower(GSTAmount)>>)

\* the scenario's run, finished, its row committed
C8_Witness ==
    /\ pc = "done" /\ response.doc = ScenarioDoc /\ db0 = NoTable
    /\ Len(db.rows) = 1
    /\ log = <<"get", "strict_parse", "normalize", "connect", "create_table", "commit",
               "insert", "commit", "close">>

DbEvents == SelectSeq(log, IsDbEvent)

\* C10: a run that opened the connection creates the table and commits once
\* before the first INSERT, commits once more after the last INSERT, and does
\* not end before it closed the connection after that commit
C10_ConnectionLifecycle ==
    Happened("connect") =>
        /\ \A i \in 1..Len(DbEvents) :
              IsInsertEvent(DbEvents[i]) =>
                 /\ i > 3
                 /\ SubSeq(DbEvents, 1, 3) = <<"connect", "create_table", "commit">>
                 /\ \A j \in 4..i : IsInsertEvent(DbEvents[j])
        /\ pc \in {"done", "aborted"} =>
              /\ conn = "closed"
              /\ Len(DbEvents) >= 5
              /\ SubSeq(DbEvents, 1, 3) = <<"connect", "create_table", "commit">>
              /\ SubSeq(DbEvents, Len(DbEvents) - 1, Len(DbEvents)) = <<"commit", "close">>
              /\ Count(DbEvents, "commit") = 2
              /\ \A j \in 4..(Len(DbEvents) - 2) : IsInsertEvent(DbEvents[j])

IsAsciiWordChar(c) == c \in Range(Uppers) \cup Range(Lowers) \cup Range(Digits) \cup {"_"}

NoLeadingUnderscore(name) == name # <<>> => name[1] # "_"

NoTrailingUnderscore(name) == name # <<>> => name[Len(name)] # "_"

NoUnderscoreRun(name) == \A k \in 1..(Len(name) - 1) : ~(name[k] = "_" /\ name[k + 1] = "_")

\* the name the sanitizer gave the first column, which no earlier column can
\* have taken: clean_column of the column
FirstCleaned == cleaned_columns[1]

\* C2, as amended: the output of clean_column holds only word characters in
\* the sense of \w (Unicode letters and digits, underscore), has no leading
\* underscore and no run of underscores; it ends in an underscore exactly when
\* it is a reserved word, in any case, followed by that one underscore
C2_CleanColumnShape ==
    pc = "sanitize" /\ Len(cleaned_columns) >= 1 =>
        /\ \A k \in 1..Len(FirstCleaned) : IsWordChar(FirstCleaned[k])
        /\ NoLeadingUnderscore(FirstCleaned)
        /\ NoUnderscoreRun(FirstCleaned)
        /\ lower(FirstCleaned) \notin postgres_reserved_keywords
        /\ ~NoTrailingUnderscore(FirstCleaned) <=>
              \E w \in postgres_reserved_keywords :
                 lower(FirstCleaned) = Append(w, "_")

\* C2, as claimed: only characters of [A-Za-z0-9_], no leading underscore, no
\* trailing underscore, no run of underscores
C2_CleanColumnAscii ==
    pc = "sanitize" /\ Len(cleaned_columns) >= 1 =>
        /\ \A k \in 1..Len(FirstCleaned) : IsAsciiWordChar(FirstCleaned[k])
        /\ NoLeadingUnderscore(FirstCleaned)
        /\ NoTrailingUnderscore(FirstCleaned)
        /\ NoUnderscoreRun(FirstCleaned)

\* a column that cleans to a reserved word and got its underscore
C2_Witness ==
    /\ pc = "sanitize"
    /\ df_columns = << <<" ", "B", "y", " ">> >>
    /\ cleaned_columns = << <<"B", "y", "_">> >>

Taken(i) == {cleaned_columns[j] : j \in 1..(i - 1)}

\* C3: the names built so far are as many as the columns gone through and
\* pairwise distinct; the name of column i is its cleaned name if no earlier
\* column got that name, and otherwise the cleaned name with _k, k the least
\* number from 1 on for which no earlier column got that name
C3_Deduplication ==
    pc = "sanitize" =>
        /\ Len(cleaned_columns) <= Len(df_columns)
        /\ seen = Range(cleaned_columns)
        /\ \A i, j \in 1..Len(cleaned_columns) : i # j => cleaned_columns[i] # cleaned_columns[j]
        /\ \A i \in 1..Len(cleaned_columns) :
              LET c == clean_column(df_columns[i])
              IN  IF c \notin Taken(i)
                  THEN cleaned_columns[i] = c
                  ELSE \E k \in 1..i :
                          /\ cleaned_columns[i] = c \o <<"_">> \o IntStr(k)
                          /\ cleaned_columns[i] \notin Taken(i)
                          /\ \A m \in 1..(k - 1) : (c \o <<"_">> \o IntStr(m)) \in Taken(i)

\* the third of three columns: a_1, already generated for the second, comes
\* again as a raw name and gets a_1_1
C3_Witness ==
    /\ pc = "sanitize"
    /\ df_columns = << <<"a">>, <<"a", " ">>, <<"a", "_", "1">> >>
    /\ cleaned_columns = << <<"a">>, <<"a", "_", "1">>, <<"a", "_", "1", "_", "1">> >>

\* the table CREATE TABLE made, not yet committed
CreatedType == pending.cols[1].type

MentionsAny(name, words) == \E w \in words : Contains(lower(name), w)

\* C4: the type of a column is one of the four, decided on the lower-cased
\* name by the first rule that matches: date, month, qty or points, a word of
\* the numeric list, none
C4_TypeInference ==
    pc = "commit_create" =>
        LET name == df_columns[1]
            isDate == /\ MentionsAny(name, {<<"d", "a", "t", "e">>})
                      /\ lower(name) # <<"b", "i", "l", "l", "m", "o", "n", "t", "h">>
            isMonth == MentionsAny(name, {<<"m", "o", "n", "t", "h">>})
            isInteger == MentionsAny(name, IntegerWords)
            isNumeric == MentionsAny(name, NumericWords)
        IN  /\ CreatedType \in {DATE, TEXT, INTEGER, NUMERIC_10_2}
            /\ CreatedType = DATE <=> isDate
            /\ CreatedType = INTEGER <=> ~isDate /\ ~isMonth /\ isInteger
            /\ CreatedType = NUMERIC_10_2 <=> ~isDate /\ ~isMonth /\ ~isInteger /\ isNumeric
            /\ CreatedType = TEXT <=> ~isDate /\ (isMonth \/ (~isInteger /\ ~isNumeric))
            /\ name = GSTAmount => CreatedType = NUMERIC_10_2
            /\ name = BillDate => CreatedType = DATE
            /\ name = <<"B", "i", "l", "l", "M", "o", "n", "t", "h">> => CreatedType = TEXT
            /\ name = Qty => CreatedType = INTEGER
            /\ name = <<"D", "e", "s", "c", "r", "i", "p", "t", "i", "o", "n">> => CreatedType = TEXT
            /\ name = <<"U", "p", "d", "a", "t", "e", "A", "m", "o", "u", "n", "t">>
                  => CreatedType = DATE
            /\ name = <<"M", "o", "n", "t", "h", "l", "y", "Q", "t", "y">> => CreatedType = TEXT

\* MonthlyQty, which matches the rules of month and of qty, created as TEXT
C4_Witness ==
    /\ pc = "commit_create"
    /\ df_columns = << <<"M", "o", "n", "t", "h", "l", "y", "Q", "t", "y">> >>
    /\ CreatedType = TEXT

\* the one cell of the table and the type keyword the loop passes with it
TheCell == df_rows[1][1]
TheKeyword == TypeKeyword(infer_pg_type(df_columns[1]))

\* whether x, a float, cut towards zero is the integer n
TruncatesTo(x, n) ==
    /\ (IF n < 0 THEN -n ELSE n) * x.den <= Magnitude(x)
    /\ Magnitude(x) < ((IF n < 0 THEN -n ELSE n) + 1) * x.den
    /\ x.num >= 0 => n >= 0
    /\ x.num <= 0 => n <= 0

\* what the claim has clean_value return for a cell that is not missing: the
\* parsed number, the parsed number cut to an integer, the parsed date, or
\* NULL when the parse fails; the trimmed string for text
TypedResult(v, keyword, r) ==
    CASE keyword = numeric ->
            IF py_float(v).ok THEN r = py_float(v).value ELSE r = None
      [] keyword = integer ->
            IF py_float(v).ok /\ py_float(v).value.kind = "float"
            THEN r.kind = "int" /\ TruncatesTo(py_float(v).value, r.n)
            ELSE r = None
      [] keyword = date ->
            IF to_datetime_date(v).ok THEN r = to_datetime_date(v).value ELSE r = None
      [] keyword = text ->
            /\ r.kind = "str"
            /\ r.s = strip(py_str(v))
            /\ r.s # <<>> => ~IsSpace(r.s[1]) /\ ~IsSpace(r.s[Len(r.s)])

\* the four cases the claim names
ClaimedCases(v, keyword, r) ==
    /\ v = None /\ keyword = numeric => r = None
    /\ v = Str(<<"N", "/", "A">>) /\ keyword = text => r = None
    /\ v = Str(<<"1", "2", ".", "5", "0">>) /\ keyword = numeric => r = PyFloat(125, 10)
    /\ v = Str(Abc) /\ keyword = integer => r = None

\* a string that, blanks trimmed and in capitals, is N/A, NA or empty
TrimmedSentinel(v) ==
    /\ v.kind = "str"
    /\ \E w \in Sentinels :
          /\ Len(strip(v.s)) = Len(w)
          /\ \A k \in 1..Len(w) : UpperChar(strip(v.s)[k]) = w[k]

LegalEscapeAt(s, i) ==
    /\ s[i] = "\\"
    /\ i < Len(s)
    /\ \/ s[i + 1] \in {"\"", "\\", "/", "b", "f", "n", "r", "t"}
       \/ /\ s[i + 1] = "u"
          /\ i + 5 <= Len(s)
          /\ \A k \in (i + 2)..(i + 5) : s[k] \in HexDigits

\* s from position i on, every backslash that starts no escape sequence
\* doubled and every escape sequence kept
RECURSIVE StraysDoubled(_, _)
StraysDoubled(s, i) ==
    IF i > Len(s) THEN <<>>
    ELSE IF s[i] # "\\" THEN <<s[i]>> \o StraysDoubled(s, i + 1)
    ELSE IF LegalEscapeAt(s, i)
         THEN LET n == IF s[i + 1] = "u" THEN 6 ELSE 2
              IN  SubSeq(s, i, i + n - 1) \o StraysDoubled(s, i + n)
    ELSE <<"\\", "\\">> \o StraysDoubled(s, i + 1)

\* C9: the repaired text is the text with the stray backslashes doubled and
\* the escape sequences untouched, so that a text whose only defect is stray
\* backslashes parses, on the retry, to its string with those taken literally
C9_RepairOnlyStrays ==
    LET mended == StraysDoubled(response.text, 1)
    IN  /\ Happened("repair") => cleaned_text = mended
        /\ Happened("retry_parse") /\ json_loads(mended, response.doc).ok =>
              data = Decoded(json_loads(mended, response.doc).value)

=============================================================================
